---- MODULE Spec2Model ----
(***************************************************************************)
(* Model of mcppaylocity: TokenManager (token_manager.py) and              *)
(* PaylocityClient._make_request (paylocity_client.py).                    *)
(*                                                                         *)
(* One caller drives the public operations get_access_token,              *)
(* invalidate_token and _make_request.  Every network call (the identity   *)
(* endpoint POST and the authorized request) is one step whose outcome the *)
(* environment chooses; time.sleep advances the clock by its argument.     *)
(* Tokens are numbered in the order the identity endpoint issues them.     *)
(***************************************************************************)
EXTENDS Integers, Sequences, FiniteSets

VARIABLES
  now,             \* time.time(), whole seconds
  ticks,           \* number of idle clock advances so far
  ncalls,          \* number of public operations started so far
  cache,           \* content of token.json
  info,            \* token_info.txt: token it describes, or NoToken if absent
  access_token,    \* TokenManager.access_token
  token_expiry,    \* TokenManager.token_expiry
  issued,          \* number of tokens the identity endpoint has issued
  pc,              \* position of the caller
  op,              \* public operation in progress
  token,           \* _make_request: local token
  current_retry,   \* _make_request: local current_retry
  retry_delay,     \* _make_request: local retry_delay
  last_exception,  \* _make_request: local last_exception
  tm_retry,        \* _request_new_token: local current_retry
  tm_delay,        \* _request_new_token: local retry_delay
  posts,           \* identity-endpoint POSTs made by the current operation
  attempts,        \* loop iterations of the current _make_request, in order
  sleeps,          \* delays slept by the current _make_request, in order
  tmSleeps,        \* delays slept by the current _request_new_token, in order
  invals,          \* invalidate_token calls made by the current operation
  ret,             \* how the last finished operation ended
  cache0,          \* token.json when the current operation started
  now0,            \* clock when the current operation started
  afterInval,      \* the current operation directly follows invalidate_token
  preInv,          \* token.json before the last invalidate_token
  postLog          \* outcomes of the POSTs of the _request_new_token in
                   \* progress; kept when it ends get_access_token called
                   \* directly, dropped when it returns to _make_request

\* _save_token_to_cache step by step, by concurrent callers
VARIABLES
  tmp,             \* content of token.json.tmp
  wpc,             \* position of each caller inside _save_token_to_cache
  wtok,            \* the token each caller is saving
  wfile,           \* the name under which the file a caller holds open is
                   \* reachable now: "tmp", "primary", "unlinked" or "none"
  observed,        \* what the last json.load of token.json read
  crashed          \* the process has crashed

\* get_access_token and invalidate_token by concurrent threads
VARIABLES
  tpc,             \* position of each thread inside get_access_token
  tres             \* how the get_access_token of each thread ended

\* the dispatch layer: one invocation of a resource or tool handler
VARIABLES
  dpc,             \* position of the handler
  handler,         \* the handler that was invoked
  attempt,         \* the loop variable of the handler's retry loop
  d_delay,         \* retry_delay of the handler
  dsleeps,         \* the time.sleep calls of the handler
  dcalls,          \* calls of the client operation by the handler
  dret             \* how the handler ended

\* TokenManager instances constructed with different credentials or
\* base_url; all of them use the same token.json
VARIABLES
  imem,            \* access_token and token_expiry of each instance
  iret,            \* what the last get_access_token of each instance returned
  owner            \* owner[k]: the identity whose exchange obtained token k

\* concurrent _make_request calls on one client
VARIABLES
  xpc,             \* position of each caller inside _make_request
  xtok,            \* the token the caller holds
  xiss,            \* the number of tokens issued when the caller got it
  xretry,          \* current_retry of the caller
  xdelay,          \* retry_delay of the caller
  xinv             \* the last invalidate_token after a 401: the caller, the
                   \* token that was rejected, what token.json held, and
                   \* xiss of the caller

vars == <<now, ticks, ncalls, cache, info, access_token, token_expiry, issued,
          pc, op, token, current_retry, retry_delay, last_exception,
          tm_retry, tm_delay, posts, attempts, sleeps, tmSleeps, invals, ret,
          cache0, now0, afterInval, preInv, postLog,
          tmp, wpc, wtok, wfile, observed, crashed,
          tpc, tres,
          dpc, handler, attempt, d_delay, dsleeps, dcalls, dret,
          imem, iret, owner,
          xpc, xtok, xiss, xretry, xdelay, xinv>>

\* the variables of the step-by-step _save_token_to_cache
saveVars == <<tmp, wpc, wtok, wfile, observed, crashed>>

\* the variables the other specifications add to Spec and SpecEx
extVars == <<saveVars, tpc, tres, dpc, handler, attempt, d_delay, dsleeps,
            dcalls, dret, imem, iret, owner, xpc, xtok, xiss, xretry, xdelay,
            xinv>>

\* the variables of the instances
idVars == <<imem, iret, owner>>

\* the variables of the concurrent _make_request calls
xVars == <<xpc, xtok, xiss, xretry, xdelay, xinv>>

\* the variables of the threads
thVars == <<tpc, tres>>

\* the variables of the dispatch layer
dispVars == <<dpc, handler, attempt, d_delay, dsleeps, dcalls, dret>>

\* the locals and the bookkeeping of the one caller of Spec and SpecEx
callVars == <<now, ticks, ncalls, pc, op, token, current_retry, retry_delay,
              last_exception, tm_retry, tm_delay, posts, attempts, sleeps,
              tmSleeps, invals, ret, cache0, now0, afterInval, preInv,
              postLog>>

\* the same without the clock
opVars == <<ticks, ncalls, pc, op, token, current_retry, retry_delay,
            last_exception, tm_retry, tm_delay, posts, attempts, sleeps,
            tmSleeps, invals, ret, cache0, now0, afterInval, preInv,
            postLog>>

(***************************************************************************)
(* Bounds of the model.                                                    *)
(***************************************************************************)
MaxCalls == 3
MaxTicks == 1
MaxSaves == 2
MaxExchanges == 2

(***************************************************************************)
(* Program constants.                                                      *)
(***************************************************************************)
max_retries == 3
base_delay == 1
Buffer == 600
\* max_retries and retry_delay of the retry loops of the dispatch layer
handler_max_retries == 3
handler_retry_delay == 1

NoToken == 0
NoExpiry == 0 - 1

(***************************************************************************)
(* Values.                                                                 *)
(***************************************************************************)
Absent == [kind |-> "absent", token |-> NoToken, expiry |-> NoExpiry]

Record(t, e) == [kind |-> "record", token |-> t, expiry |-> e]

NoExc == [type |-> "none", status |-> 0, n |-> 0]

Exc(t, s, i) == [type |-> t, status |-> s, n |-> i]

NoRet == [op |-> "none", kind |-> "none", tok |-> NoToken, exp |-> NoExpiry,
          at |-> 0, src |-> "none", exc |-> NoExc, status |-> 0]

\* get_access_token returned token t, which expires at e, taken from s
RetToken(t, e, s) == [op |-> "get_token", kind |-> "return", tok |-> t,
                      exp |-> e, at |-> now, src |-> s, exc |-> NoExc,
                      status |-> 0]

\* operation o raised e
RetRaise(o, e) == [op |-> o, kind |-> "raise", tok |-> NoToken,
                   exp |-> NoExpiry, at |-> now, src |-> "none", exc |-> e,
                   status |-> 0]

\* _make_request returned the response with status s
RetResponse(s) == [op |-> "execute", kind |-> "return", tok |-> NoToken,
                   exp |-> NoExpiry, at |-> now, src |-> "none",
                   exc |-> NoExc, status |-> s]

\* _make_request fell out of its loop and returned None
RetNone == [op |-> "execute", kind |-> "return", tok |-> NoToken,
            exp |-> NoExpiry, at |-> now, src |-> "none", exc |-> NoExc,
            status |-> 0]

(***************************************************************************)
(* Inputs the environment chooses.                                         *)
(***************************************************************************)
\* expires_in values of the identity endpoint
ExpiresInValues == {300, 601, 3600}

\* outcomes of the identity-endpoint POST
PostOutcomes ==
  [type : {"Response"}, status : {200}, expires_in : ExpiresInValues]
    \cup [type : {"Response"}, status : {400, 500}, expires_in : {0}]
    \cup [type : {"Timeout", "ConnectionError"}, status : {0}, expires_in : {0}]

\* outcomes of the authorized request
RequestOutcomes ==
  [type : {"Response"}, status : {200, 401, 404, 503}]
    \cup [type : {"Timeout", "ConnectionError"}, status : {0}]

\* idle clock advances
TickValues == {1, 3000}

\* token.json as an earlier run of the program, or anything else, left it
InitialCaches ==
  {Absent}
    \cup {Record(1, e) : e \in {0, 599, 600, 601, 602, 4000}}
    \cup {[kind |-> k, token |-> 1, expiry |-> 4000] : k \in {"notoken"}}
    \cup {[kind |-> k, token |-> NoToken, expiry |-> NoExpiry] :
            k \in {"badjson", "noexpiry", "badexpiry"}}

\* token.json at the start of the runs of _make_request
ExInitialCaches ==
  {Absent, Record(1, 601), Record(1, 4000),
   [kind |-> "badjson", token |-> NoToken, expiry |-> NoExpiry],
   [kind |-> "noexpiry", token |-> NoToken, expiry |-> NoExpiry]}

\* outcomes of the identity-endpoint POST in the runs of _make_request
ExPostOutcomes ==
  [type : {"Response"}, status : {200}, expires_in : {300, 3600}]
    \cup [type : {"Response"}, status : {500}, expires_in : {0}]
    \cup [type : {"Timeout"}, status : {0}, expires_in : {0}]

\* the callers that may run _save_token_to_cache concurrently
Writers == {1, 2}

\* the threads that share one TokenManager
Threads == {1, 2}

\* the result of a get_access_token of a thread: none yet, a returned value
\* (NoToken is None) or a raised exception
NoRes == [kind |-> "none", token |-> NoToken]

ResReturn(t) == [kind |-> "return", token |-> t]

ResRaise == [kind |-> "raise", token |-> NoToken]

\* the handlers of the dispatch layer: the resource with its own retry
\* loop, the tool that goes through with_retry, a tool that calls the
\* client directly
\* the identities of the TokenManager instances: the environment that
\* selects base_url
Identities == {"testing", "production"}

\* the callers of _make_request that run concurrently
Callers == {1, 2}

\* no invalidate_token after a 401 yet
NoInv == [by |-> 0, rejected |-> NoToken, removed |-> Absent, iss |-> 0]

Handlers == {"get_employees", "fetch_employees", "fetch_employee_details"}

\* how a handler ended
NoDispRet == [kind |-> "none", status |-> 0]

DispReturned(st) == [kind |-> "return", status |-> st]

DispRaised(st) == [kind |-> "raise", status |-> st]

\* a file just opened for writing: empty, which json.load rejects
Empty == [kind |-> "badjson", token |-> NoToken, expiry |-> NoExpiry]

\* a file holding part of the JSON text of the record of token t
Partial(t) == [kind |-> "badjson", token |-> t, expiry |-> NoExpiry]

\* token.json has not been read yet
NotRead == [kind |-> "none", token |-> NoToken, expiry |-> NoExpiry]

(***************************************************************************)
(* TokenManager state as one value, so that its methods are operators.     *)
(***************************************************************************)
TM == [cache |-> cache, info |-> info, access_token |-> access_token,
       token_expiry |-> token_expiry]

SetTM(t) ==
  /\ cache' = t.cache
  /\ info' = t.info
  /\ access_token' = t.access_token
  /\ token_expiry' = t.token_expiry

\* storage faults: which step of a storage operation raises OSError
SaveFaults == {"none"}
RemoveFaults == {"none"}

(***************************************************************************)
(* TokenManager._load_cached_token                                         *)
(***************************************************************************)
\* the freshness test of the cached record
TokenStillValidOff(expiry, t) == expiry >= t + Buffer

TokenStillValid(expiry, t) == expiry > t + Buffer

Miss(tm) == [hit |-> FALSE, exc |-> NoExc, tm |-> tm]

LoadNeverHits(tm, t, fault) ==
  CASE tm.cache.kind = "absent" -> Miss(tm)
    [] tm.cache.kind = "badjson" ->
         Miss(IF fault = "none" THEN [tm EXCEPT !.cache = Absent] ELSE tm)
    [] tm.cache.kind = "noexpiry" ->
         [hit |-> FALSE, exc |-> Exc("KeyError", 0, 0), tm |-> tm]
    [] tm.cache.kind = "badexpiry" ->
         [hit |-> FALSE, exc |-> Exc("TypeError", 0, 0), tm |-> tm]
    [] OTHER -> Miss(tm)

\* result of _load_cached_token at time t: hit is its return value, exc the
\* exception it lets escape, tm the TokenManager afterwards
load_cached_token(tm, t, fault) ==
  CASE tm.cache.kind = "absent" -> Miss(tm)
    [] tm.cache.kind = "badjson" ->
         Miss(IF fault = "none" THEN [tm EXCEPT !.cache = Absent] ELSE tm)
    [] tm.cache.kind = "noexpiry" ->
         [hit |-> FALSE, exc |-> Exc("KeyError", 0, 0), tm |-> tm]
    [] tm.cache.kind = "badexpiry" ->
         [hit |-> FALSE, exc |-> Exc("TypeError", 0, 0), tm |-> tm]
    [] tm.cache.kind = "notoken" ->
         IF TokenStillValid(tm.cache.expiry, t)
           THEN [hit |-> FALSE, exc |-> Exc("KeyError", 0, 0), tm |-> tm]
           ELSE Miss(tm)
    [] tm.cache.kind = "record" ->
         IF TokenStillValid(tm.cache.expiry, t)
           THEN [hit |-> TRUE, exc |-> NoExc,
                 tm |-> [tm EXCEPT !.access_token = tm.cache.token,
                                   !.token_expiry = tm.cache.expiry]]
           ELSE Miss(tm)

(***************************************************************************)
(* TokenManager._save_token_to_cache                                       *)
(***************************************************************************)
SaveInPlace(tm, tok, expiry, fault) ==
  CASE fault = "none" ->
         [tm EXCEPT !.cache = Record(tok, expiry), !.info = tok]
    [] fault = "info" -> [tm EXCEPT !.cache = Record(tok, expiry)]
    [] OTHER ->
         [tm EXCEPT !.cache = [kind |-> "badjson", token |-> tok,
                               expiry |-> NoExpiry]]

SaveNothing(tm, tok, expiry, fault) == tm

save_token_to_cache(tm, tok, expiry, fault) ==
  CASE fault = "none" ->
         [tm EXCEPT !.cache = Record(tok, expiry), !.info = tok]
    [] fault = "info" -> [tm EXCEPT !.cache = Record(tok, expiry)]
    [] OTHER -> tm

(***************************************************************************)
(* TokenManager.invalidate_token                                           *)
(***************************************************************************)
InvalidateKeepsFiles(tm, fault) ==
  [tm EXCEPT !.access_token = NoToken, !.token_expiry = NoExpiry]

InvalidateKeepsSidecar(tm, fault) ==
  [tm EXCEPT !.access_token = NoToken, !.token_expiry = NoExpiry,
             !.cache = Absent]

invalidate_token(tm, fault) ==
  LET m == [tm EXCEPT !.access_token = NoToken, !.token_expiry = NoExpiry]
  IN CASE fault = "none" -> [m EXCEPT !.cache = Absent, !.info = NoToken]
       [] fault = "info" -> [m EXCEPT !.cache = Absent]
       [] OTHER -> m

(***************************************************************************)
(* TokenManager._request_new_token: the pieces of its retry loop           *)
(***************************************************************************)
\* expiry of a token obtained at time t
TokenExpiry(t, expires_in) == t + expires_in

TmRetryAllowedShort(r) == r < max_retries

\* the test after current_retry += 1 in both except branches
TmRetryAllowedWide(r) == r <= max_retries + 1

TmRetryAllowed(r) == r <= max_retries

TmNextDelay(d) == d * 2

(***************************************************************************)
(* PaylocityClient._make_request: the pieces of its retry loop             *)
(***************************************************************************)
LoopGuard(r) == r <= max_retries

\* response.raise_for_status() raises
IsErrorStatus(s) == 400 <= s /\ s < 600

Retry401Always(s, r) == s = 401

Retry404AsUnauthorized(s, r) == s \in {401, 404} /\ r < max_retries

ShouldRetry401(s, r) == s = 401 /\ r < max_retries

On401Skip(tm, fault) == tm

\* what the 401 branch does to the TokenManager
On401(tm, fault) == invalidate_token(tm, fault)

Retry4xxToo(s, r) == 400 <= s /\ s < 600 /\ r < max_retries

No5xxRetry(s, r) == FALSE

ShouldRetry5xx(s, r) == 500 <= s /\ s < 600 /\ r < max_retries

RetryAllowedShort(r) == r < max_retries

\* the test after current_retry += 1 in the Timeout and ConnectionError
\* branches
RetryAllowed(r) == r <= max_retries

NextDelayLinear(d) == d + 1

NextDelay(d) == d * 2

(***************************************************************************)
(* Initial state: the program after PaylocityClient.__init__, with the     *)
(* token.json an earlier run left behind.                                  *)
(***************************************************************************)
CoreInit ==
  /\ now = 0
  /\ ticks = 0
  /\ ncalls = 0
  /\ cache \in InitialCaches
  /\ info = IF cache.kind = "record" THEN cache.token ELSE NoToken
  /\ access_token = NoToken
  /\ token_expiry = NoExpiry
  /\ issued = 1
  /\ pc = "idle"
  /\ op = "none"
  /\ token = NoToken
  /\ current_retry = 0
  /\ retry_delay = base_delay
  /\ last_exception = NoExc
  /\ tm_retry = 0
  /\ tm_delay = base_delay
  /\ posts = 0
  /\ attempts = <<>>
  /\ sleeps = <<>>
  /\ tmSleeps = <<>>
  /\ invals = 0
  /\ ret = NoRet
  /\ cache0 = cache
  /\ now0 = 0
  /\ afterInval = FALSE
  /\ preInv = Absent
  /\ postLog = <<>>

\* no _save_token_to_cache is in progress
SaveInit ==
  /\ wpc = [w \in Writers |-> "idle"]
  /\ wtok = [w \in Writers |-> NoToken]
  /\ wfile = [w \in Writers |-> "none"]
  /\ observed = NotRead
  /\ crashed = FALSE

\* no thread is inside get_access_token
ThInit ==
  /\ tpc = [t \in Threads |-> "idle"]
  /\ tres = [t \in Threads |-> NoRes]

\* no handler has been invoked
DispInit ==
  /\ dpc = "idle"
  /\ handler = "none"
  /\ attempt = 0
  /\ d_delay = 0
  /\ dsleeps = <<>>
  /\ dcalls = 0
  /\ dret = NoDispRet

\* the instances hold no token in memory; the token of the record an
\* earlier run left was obtained by one of the identities
IdInit ==
  /\ imem = [i \in Identities |->
               [access_token |-> NoToken, token_expiry |-> NoExpiry]]
  /\ iret = [i \in Identities |-> NoRes]
  /\ owner \in [{1} -> Identities]

\* no caller is inside _make_request
XInit ==
  /\ xpc = [c \in Callers |-> "idle"]
  /\ xtok = [c \in Callers |-> NoToken]
  /\ xiss = [c \in Callers |-> 0]
  /\ xretry = [c \in Callers |-> 0]
  /\ xdelay = [c \in Callers |-> base_delay]
  /\ xinv = NoInv

Init ==
  /\ CoreInit
  /\ SaveInit
  /\ ThInit
  /\ DispInit
  /\ IdInit
  /\ XInit
  /\ owner[1] = "production"
  /\ tmp = Absent

(***************************************************************************)
(* Shared steps.                                                           *)
(***************************************************************************)
\* a public operation starts: the bookkeeping of the current operation is
\* reset
StartOp ==
  /\ pc = "idle"
  /\ ncalls < MaxCalls
  /\ ncalls' = ncalls + 1
  /\ cache0' = cache
  /\ now0' = now
  /\ afterInval' = (ret.op = "invalidate")

\* the current operation ends with result r
Finish(r) ==
  /\ pc' = "idle"
  /\ op' = "none"
  /\ ret' = r

\* get_access_token enters _request_new_token
EnterExchange ==
  /\ pc' = "tm_post"
  /\ tm_retry' = 0
  /\ tm_delay' = base_delay
  /\ tmSleeps' = <<>>
  /\ postLog' = <<>>

\* _make_request: current_retry += 1; time.sleep(retry_delay);
\* retry_delay *= 2; next iteration
ExRetrySleep ==
  /\ current_retry' = current_retry + 1
  /\ sleeps' = Append(sleeps, retry_delay)
  /\ now' = now + retry_delay
  /\ retry_delay' = NextDelay(retry_delay)
  /\ pc' = "ex_loop"
  /\ UNCHANGED <<op, ret>>

\* _make_request: the exception is re-raised to the caller
ExRaise(e) ==
  /\ Finish(RetRaise("execute", e))
  /\ UNCHANGED <<sleeps, now, retry_delay>>

\* _make_request: exception e is raised inside the try block
ExCatch(e) ==
  IF e.type \in {"Timeout", "ConnectionError"}
    THEN /\ last_exception' = e
         /\ IF RetryAllowed(current_retry + 1)
              THEN ExRetrySleep
              ELSE /\ current_retry' = current_retry + 1
                   /\ ExRaise(e)
    ELSE IF e.type = "HTTPError" /\ ShouldRetry5xx(e.status, current_retry)
      THEN /\ last_exception' = e
           /\ ExRetrySleep
      ELSE /\ ExRaise(e)
           /\ UNCHANGED <<last_exception, current_retry>>

\* one iteration of the loop of _make_request, as the properties see it
Attempt(src, type, status, tok) ==
  [src |-> src, type |-> type, status |-> status, tok |-> tok,
   cr |-> current_retry, sl |-> Len(sleeps), inv |-> invals,
   iss |-> issued]

(***************************************************************************)
(* The clock advances while the caller is idle.                            *)
(***************************************************************************)
Tick(d) ==
  /\ UNCHANGED extVars
  /\ pc = "idle"
  /\ ticks < MaxTicks
  /\ ticks' = ticks + 1
  /\ now' = now + d
  /\ UNCHANGED <<ncalls, cache, info, access_token, token_expiry, issued, pc,
                 op, token, current_retry, retry_delay, last_exception,
                 tm_retry, tm_delay, posts, attempts, sleeps, tmSleeps,
                 postLog,
                 invals, ret, cache0, now0, afterInval, preInv>>

(***************************************************************************)
(* TokenManager.get_access_token, called directly: _load_cached_token and  *)
(* the return, or the entry into _request_new_token.                       *)
(***************************************************************************)
CallGetToken(fault) ==
  /\ UNCHANGED extVars
  /\ StartOp
  /\ posts' = 0
  /\ invals' = 0
  /\ attempts' = <<>>
  /\ sleeps' = <<>>
  /\ LET r == load_cached_token(TM, now, fault) IN
       /\ SetTM(r.tm)
       /\ IF r.exc # NoExc
            THEN /\ Finish(RetRaise("get_token", r.exc))
                 /\ UNCHANGED <<tm_retry, tm_delay, tmSleeps, postLog>>
            ELSE IF r.hit
              THEN /\ Finish(RetToken(r.tm.access_token, r.tm.token_expiry,
                                      "cache"))
                   /\ UNCHANGED <<tm_retry, tm_delay, tmSleeps, postLog>>
              ELSE /\ EnterExchange
                   /\ op' = "get_token"
                   /\ ret' = NoRet
  /\ UNCHANGED <<now, ticks, issued, token, current_retry, retry_delay,
                 last_exception, preInv>>

(***************************************************************************)
(* TokenManager.invalidate_token, called directly.                         *)
(***************************************************************************)
CallInvalidate(fault) ==
  /\ UNCHANGED extVars
  /\ StartOp
  /\ posts' = 0
  /\ invals' = 1
  /\ attempts' = <<>>
  /\ sleeps' = <<>>
  /\ preInv' = cache
  /\ SetTM(invalidate_token(TM, fault))
  /\ Finish([NoRet EXCEPT !.op = "invalidate", !.kind = "return",
                          !.at = now])
  /\ UNCHANGED <<now, ticks, issued, token, current_retry, retry_delay,
                 last_exception, tm_retry, tm_delay, tmSleeps, postLog>>

(***************************************************************************)
(* TokenManager._request_new_token: one requests.post and what follows it  *)
(* up to the next post, the return or the raise.                           *)
(***************************************************************************)
TmPost(out, fault) ==
  /\ UNCHANGED extVars
  /\ pc = "tm_post"
  /\ posts' = posts + 1
  /\ postLog' =
       IF /\ op = "execute"
          /\ \/ out.type = "Response" /\ ~IsErrorStatus(out.status)
             \/ ~TmRetryAllowed(tm_retry + 1)
         THEN <<>>
         ELSE Append(postLog, [type |-> out.type, status |-> out.status,
                               expires_in |-> out.expires_in])
  /\ IF out.type = "Response" /\ ~IsErrorStatus(out.status)
       THEN LET tok == issued + 1
                exp == TokenExpiry(now, out.expires_in)
                m == [TM EXCEPT !.access_token = tok, !.token_expiry = exp]
            IN /\ issued' = tok
               /\ SetTM(save_token_to_cache(m, tok, exp, fault))
               /\ IF op = "get_token"
                    THEN /\ Finish(RetToken(tok, exp, "exchange"))
                         /\ UNCHANGED token
                    ELSE /\ token' = tok
                         /\ pc' = "ex_send"
                         /\ UNCHANGED <<op, ret>>
               /\ UNCHANGED <<now, tm_retry, tm_delay, tmSleeps,
                              current_retry, retry_delay, last_exception,
                              attempts, sleeps>>
       ELSE LET e == IF out.type = "Response"
                       THEN Exc("HTTPError", out.status, posts + 1)
                       ELSE Exc(out.type, 0, posts + 1)
            IN /\ tm_retry' = tm_retry + 1
               /\ UNCHANGED <<issued, cache, info, access_token,
                              token_expiry, token>>
               /\ IF TmRetryAllowed(tm_retry + 1)
                    THEN /\ now' = now + tm_delay
                         /\ tmSleeps' = Append(tmSleeps, tm_delay)
                         /\ tm_delay' = TmNextDelay(tm_delay)
                         /\ UNCHANGED <<pc, op, ret, current_retry,
                                        retry_delay, last_exception,
                                        attempts, sleeps>>
                    ELSE /\ UNCHANGED <<tm_delay, tmSleeps>>
                         /\ IF op = "get_token"
                              THEN /\ Finish(RetRaise("get_token", e))
                                   /\ UNCHANGED <<now, current_retry,
                                                  retry_delay,
                                                  last_exception, attempts,
                                                  sleeps>>
                              ELSE /\ attempts' =
                                        Append(attempts,
                                               Attempt("idp", e.type,
                                                       e.status, NoToken))
                                   /\ ExCatch(e)
  /\ UNCHANGED <<ticks, ncalls, invals, cache0, now0, afterInval, preInv>>

(***************************************************************************)
(* PaylocityClient._make_request                                          *)
(***************************************************************************)
\* the call and the initialisation of the locals
CallExecute ==
  /\ UNCHANGED extVars
  /\ StartOp
  /\ ncalls = 0
  /\ posts' = 0
  /\ invals' = 0
  /\ attempts' = <<>>
  /\ sleeps' = <<>>
  /\ current_retry' = 0
  /\ retry_delay' = base_delay
  /\ last_exception' = NoExc
  /\ token' = NoToken
  /\ pc' = "ex_loop"
  /\ op' = "execute"
  /\ ret' = NoRet
  /\ UNCHANGED <<now, ticks, cache, info, access_token, token_expiry, issued,
                 tm_retry, tm_delay, tmSleeps, postLog, preInv>>

\* the loop test, and get_access_token up to its return from the cache or
\* its entry into _request_new_token; after the loop, the final raise
ExLoop(fault) ==
  /\ UNCHANGED extVars
  /\ pc = "ex_loop"
  /\ IF LoopGuard(current_retry)
       THEN LET r == load_cached_token(TM, now, fault) IN
              /\ SetTM(r.tm)
              /\ IF r.exc # NoExc
                   THEN /\ attempts' =
                             Append(attempts,
                                    Attempt("cache", r.exc.type, 0, NoToken))
                        /\ ExCatch(r.exc)
                        /\ UNCHANGED <<token, tm_retry, tm_delay, tmSleeps,
                                       postLog>>
                   ELSE IF r.hit
                     THEN /\ token' = r.tm.access_token
                          /\ pc' = "ex_send"
                          /\ UNCHANGED <<op, ret, now, current_retry,
                                         retry_delay, last_exception,
                                         attempts, sleeps, tm_retry,
                                         tm_delay, tmSleeps, postLog>>
                     ELSE /\ EnterExchange
                          /\ UNCHANGED <<op, ret, now, token, current_retry,
                                         retry_delay, last_exception,
                                         attempts, sleeps>>
       ELSE /\ Finish(IF last_exception # NoExc
                        THEN RetRaise("execute", last_exception)
                        ELSE RetNone)
            /\ UNCHANGED <<cache, info, access_token, token_expiry, now,
                           token, current_retry, retry_delay, last_exception,
                           attempts, sleeps, tm_retry, tm_delay, tmSleeps,
                           postLog>>
  /\ UNCHANGED <<ticks, ncalls, issued, posts, invals, cache0, now0,
                 afterInval, preInv>>

\* requests.request with the bearer token, and the classification of its
\* outcome
ExSend(out, fault) ==
  /\ UNCHANGED extVars
  /\ pc = "ex_send"
  /\ attempts' = Append(attempts,
                        Attempt("api", out.type, out.status, token))
  /\ IF out.type = "Response"
       THEN IF ShouldRetry401(out.status, current_retry)
              THEN /\ SetTM(On401(TM, fault))
                   /\ invals' = invals + 1
                   /\ ExRetrySleep
                   /\ UNCHANGED last_exception
              ELSE /\ UNCHANGED <<cache, info, access_token, token_expiry,
                                  invals>>
                   /\ IF IsErrorStatus(out.status)
                        THEN ExCatch(Exc("HTTPError", out.status,
                                         Len(attempts) + 1))
                        ELSE /\ Finish(RetResponse(out.status))
                             /\ UNCHANGED <<now, current_retry, retry_delay,
                                            last_exception, sleeps>>
       ELSE /\ ExCatch(Exc(out.type, 0, Len(attempts) + 1))
            /\ UNCHANGED <<cache, info, access_token, token_expiry, invals>>
  /\ UNCHANGED <<ticks, ncalls, issued, token, tm_retry, tm_delay, posts,
                 tmSleeps, postLog, cache0, now0, afterInval, preInv>>

(***************************************************************************)
(* Specifications.  Storage operations succeed in all of them.             *)
(*                                                                         *)
(* Spec: the TokenManager alone, driven through get_access_token and       *)
(* invalidate_token.                                                       *)
(***************************************************************************)
Next ==
  \/ \E d \in TickValues : Tick(d)
  \/ \E f \in RemoveFaults : CallGetToken(f)
  \/ \E f \in RemoveFaults : CallInvalidate(f)
  \/ \E o \in PostOutcomes, f \in SaveFaults : TmPost(o, f)

Spec == Init /\ [][Next]_vars

(***************************************************************************)
(* SpecEx: _make_request on top of the TokenManager.                       *)
(***************************************************************************)
InitEx ==
  /\ Init
  /\ cache \in ExInitialCaches

NextEx ==
  \/ \E d \in TickValues : Tick(d)
  \/ CallExecute
  \/ \E f \in RemoveFaults : ExLoop(f)
  \/ \E o \in ExPostOutcomes, f \in SaveFaults : TmPost(o, f)
  \/ \E o \in RequestOutcomes, f \in RemoveFaults : ExSend(o, f)

SpecEx == InitEx /\ [][NextEx]_vars

(***************************************************************************)
(* TokenManager._save_token_to_cache step by step.  Each caller w saves    *)
(* the token of its own successful exchange.  A file that is open for      *)
(* writing stays the same file when its name changes: os.replace moves the *)
(* file a caller still writes to under the name token.json.                *)
(***************************************************************************)
TempIsPrimary(w) == "primary"

\* the name of the temporary file caller w writes: every caller uses
\* token.json.tmp
temp_file(w) == "tmp"

\* expires_in of the tokens that are saved
SaveExpiresIn == 3600

\* the file reachable under name n
FileAt(n) == IF n = "tmp" THEN tmp ELSE IF n = "primary" THEN cache ELSE Absent

\* the file reachable under name n gets content c
WriteFile(n, c) ==
  /\ tmp' = IF n = "tmp" THEN c ELSE tmp
  /\ cache' = IF n = "primary" THEN c ELSE cache

\* the call, with the token and the expiry of a successful exchange
SaveBegin(w) ==
  /\ UNCHANGED <<idVars, xVars>>
  /\ ~crashed
  /\ wpc[w] = "idle"
  /\ issued < 1 + MaxSaves
  /\ issued' = issued + 1
  /\ wtok' = [wtok EXCEPT ![w] = issued + 1]
  /\ wpc' = [wpc EXCEPT ![w] = "begun"]
  /\ UNCHANGED <<callVars, thVars, dispVars,
                 cache, info, access_token, token_expiry, tmp,
                 wfile, observed, crashed>>

\* open(temp_file, 'w'): the file is created, or emptied if it exists
SaveOpenTemp(w) ==
  /\ UNCHANGED <<idVars, xVars>>
  /\ ~crashed
  /\ wpc[w] = "begun"
  /\ WriteFile(temp_file(w), Empty)
  /\ wfile' = [wfile EXCEPT ![w] = temp_file(w)]
  /\ wpc' = [wpc EXCEPT ![w] = "open"]
  /\ UNCHANGED <<callVars, thVars, dispVars,
                 info, access_token, token_expiry, issued, wtok,
                 observed, crashed>>

\* json.dump: a first part of the text reaches the file
SaveWrite(w) ==
  /\ UNCHANGED <<idVars, xVars>>
  /\ ~crashed
  /\ wpc[w] = "open"
  /\ WriteFile(wfile[w], Partial(wtok[w]))
  /\ wpc' = [wpc EXCEPT ![w] = "written"]
  /\ UNCHANGED <<callVars, thVars, dispVars,
                 info, access_token, token_expiry, issued, wtok,
                 wfile, observed, crashed>>

\* the end of the with block: the rest of the text reaches the file, which
\* is the complete record unless another caller emptied or overwrote it
SaveClose(w) ==
  /\ UNCHANGED <<idVars, xVars>>
  /\ ~crashed
  /\ wpc[w] = "written"
  /\ WriteFile(wfile[w],
               IF FileAt(wfile[w]) = Partial(wtok[w])
                 THEN Record(wtok[w], TokenExpiry(now, SaveExpiresIn))
                 ELSE Partial(wtok[w]))
  /\ wfile' = [wfile EXCEPT ![w] = "none"]
  /\ wpc' = [wpc EXCEPT ![w] = "closed"]
  /\ UNCHANGED <<callVars, thVars, dispVars,
                 info, access_token, token_expiry, issued, wtok,
                 observed, crashed>>

\* os.replace(temp_file, token_file); FileNotFoundError is caught by the
\* except clause, which ends _save_token_to_cache
SaveReplace(w) ==
  /\ UNCHANGED <<idVars, xVars>>
  /\ ~crashed
  /\ wpc[w] = "closed"
  /\ IF temp_file(w) = "primary"
       THEN /\ wpc' = [wpc EXCEPT ![w] = "replaced"]
            /\ UNCHANGED <<cache, tmp, wfile>>
       ELSE IF tmp = Absent
         THEN /\ wpc' = [wpc EXCEPT ![w] = "idle"]
              /\ UNCHANGED <<cache, tmp, wfile>>
         ELSE /\ cache' = tmp
              /\ tmp' = Absent
              /\ wfile' = [v \in Writers |->
                             IF wfile[v] = "tmp" THEN "primary"
                             ELSE IF wfile[v] = "primary" THEN "unlinked"
                             ELSE wfile[v]]
              /\ wpc' = [wpc EXCEPT ![w] = "replaced"]
  /\ UNCHANGED <<callVars, thVars, dispVars,
                 info, access_token, token_expiry, issued, wtok,
                 observed, crashed>>

\* the write of token_info.txt, and the return
SaveInfo(w) ==
  /\ UNCHANGED <<idVars, xVars>>
  /\ ~crashed
  /\ wpc[w] = "replaced"
  /\ info' = wtok[w]
  /\ wpc' = [wpc EXCEPT ![w] = "idle"]
  /\ UNCHANGED <<callVars, thVars, dispVars,
                 cache, access_token, token_expiry, issued, tmp,
                 wtok, wfile, observed, crashed>>

\* _load_cached_token by another caller: json.load of token.json, and the
\* removal of the file when it is not JSON
ReadCache ==
  /\ UNCHANGED <<idVars, xVars>>
  /\ ~crashed
  /\ LET r == load_cached_token(TM, now, "none") IN
       /\ r.exc = NoExc
       /\ observed' = cache
       /\ SetTM(r.tm)
       /\ wfile' = [v \in Writers |->
                      IF wfile[v] = "primary" /\ r.tm.cache # cache
                        THEN "unlinked" ELSE wfile[v]]
  /\ UNCHANGED <<callVars, thVars, dispVars, issued, tmp, wpc, wtok,
                 crashed>>

\* the process crashes: nothing runs any more, the files stay
Crash ==
  /\ UNCHANGED <<idVars, xVars>>
  /\ ~crashed
  /\ crashed' = TRUE
  /\ UNCHANGED <<callVars, thVars, dispVars,
                 cache, info, access_token, token_expiry, issued,
                 tmp, wpc, wtok, wfile, observed>>

\* token.json and token.json.tmp as earlier runs left them
SaveInitialCaches == {Absent, Record(1, 4000)}

StaleTemps == {Absent, Partial(1)}

InitSave ==
  /\ CoreInit
  /\ SaveInit
  /\ ThInit
  /\ DispInit
  /\ IdInit
  /\ XInit
  /\ owner[1] = "production"
  /\ cache \in SaveInitialCaches
  /\ tmp \in StaleTemps

(***************************************************************************)
(* SpecCrash: one caller saves, another reads, the process may crash.      *)
(***************************************************************************)
NextCrash ==
  \/ SaveBegin(1)
  \/ SaveOpenTemp(1)
  \/ SaveWrite(1)
  \/ SaveClose(1)
  \/ SaveReplace(1)
  \/ SaveInfo(1)
  \/ ReadCache
  \/ Crash

SpecCrash == InitSave /\ [][NextCrash]_vars

(***************************************************************************)
(* SpecSave: the callers save concurrently while another caller reads.     *)
(***************************************************************************)
NextSave ==
  \/ \E w \in Writers : SaveBegin(w)
  \/ \E w \in Writers : SaveOpenTemp(w)
  \/ \E w \in Writers : SaveWrite(w)
  \/ \E w \in Writers : SaveClose(w)
  \/ \E w \in Writers : SaveReplace(w)
  \/ \E w \in Writers : SaveInfo(w)
  \/ ReadCache

SpecSave == InitSave /\ [][NextSave]_vars

(***************************************************************************)
(* Threads that share one TokenManager.  A thread runs get_access_token    *)
(* in steps: _load_cached_token, the return of self.access_token; or the   *)
(* POST with the assignment of self.access_token, _save_token_to_cache,    *)
(* the return of self.access_token.  The identity endpoint answers 200.    *)
(***************************************************************************)
\* the record json.dump writes when self.access_token and self.token_expiry
\* are None
NullRecord == [kind |-> "badexpiry", token |-> NoToken, expiry |-> NoExpiry]

\* get_access_token: _load_cached_token
GtLoad(t) ==
  /\ UNCHANGED <<idVars, xVars>>
  /\ tpc[t] = "idle"
  /\ LET r == load_cached_token(TM, now, "none") IN
       /\ SetTM(r.tm)
       /\ IF r.exc # NoExc
            THEN /\ tres' = [tres EXCEPT ![t] = ResRaise]
                 /\ UNCHANGED tpc
            ELSE /\ tres' = [tres EXCEPT ![t] = NoRes]
                 /\ tpc' = [tpc EXCEPT ![t] =
                              IF r.hit THEN "hit" ELSE "exchange"]
  /\ UNCHANGED <<callVars, saveVars, dispVars, issued>>

\* get_access_token: return self.access_token after the cache hit
GtReturnCached(t) ==
  /\ UNCHANGED <<idVars, xVars>>
  /\ tpc[t] = "hit"
  /\ tres' = [tres EXCEPT ![t] = ResReturn(access_token)]
  /\ tpc' = [tpc EXCEPT ![t] = "idle"]
  /\ UNCHANGED <<callVars, saveVars, dispVars, cache, info, access_token,
                 token_expiry, issued>>

\* the POST as it would be if get_access_token held a lock from the cache
\* miss to the return
GtPostLocked(t) ==
  /\ \A u \in Threads \ {t} : tpc[u] \notin {"assigned", "saved"}
  /\ tpc[t] = "exchange"
  /\ issued < 1 + MaxExchanges
  /\ issued' = issued + 1
  /\ access_token' = issued + 1
  /\ token_expiry' = TokenExpiry(now, SaveExpiresIn)
  /\ tpc' = [tpc EXCEPT ![t] = "assigned"]
  /\ UNCHANGED <<callVars, saveVars, dispVars, idVars, xVars, cache, info,
                 tres>>

\* _request_new_token: the POST, and the assignments of self.access_token
\* and self.token_expiry
GtPost(t) ==
  /\ UNCHANGED <<idVars, xVars>>
  /\ tpc[t] = "exchange"
  /\ issued < 1 + MaxExchanges
  /\ issued' = issued + 1
  /\ access_token' = issued + 1
  /\ token_expiry' = TokenExpiry(now, SaveExpiresIn)
  /\ tpc' = [tpc EXCEPT ![t] = "assigned"]
  /\ UNCHANGED <<callVars, saveVars, dispVars, cache, info, tres>>

\* _request_new_token: self._save_token_to_cache(self.access_token,
\* self.token_expiry); with a None token, token[:50] raises TypeError after
\* the record is written
GtSave(t) ==
  /\ UNCHANGED <<idVars, xVars>>
  /\ tpc[t] = "assigned"
  /\ IF access_token = NoToken
       THEN /\ cache' = NullRecord
            /\ UNCHANGED <<info, access_token, token_expiry>>
            /\ tres' = [tres EXCEPT ![t] = ResRaise]
            /\ tpc' = [tpc EXCEPT ![t] = "idle"]
       ELSE /\ SetTM(save_token_to_cache(TM, access_token, token_expiry,
                                         "none"))
            /\ tpc' = [tpc EXCEPT ![t] = "saved"]
            /\ UNCHANGED tres
  /\ UNCHANGED <<callVars, saveVars, dispVars, issued>>

\* _request_new_token: return self.access_token
GtReturnFresh(t) ==
  /\ UNCHANGED <<idVars, xVars>>
  /\ tpc[t] = "saved"
  /\ tres' = [tres EXCEPT ![t] = ResReturn(access_token)]
  /\ tpc' = [tpc EXCEPT ![t] = "idle"]
  /\ UNCHANGED <<callVars, saveVars, dispVars, cache, info, access_token,
                 token_expiry, issued>>

\* invalidate_token by a thread
ThInvalidate(t) ==
  /\ UNCHANGED <<idVars, xVars>>
  /\ tpc[t] = "idle"
  /\ SetTM(invalidate_token(TM, "none"))
  /\ UNCHANGED <<callVars, saveVars, thVars, dispVars, issued>>

InitConc ==
  /\ InitSave
  /\ tmp = Absent

NextConc ==
  \/ \E t \in Threads : GtLoad(t)
  \/ \E t \in Threads : GtReturnCached(t)
  \/ \E t \in Threads : GtPost(t)
  \/ \E t \in Threads : GtSave(t)
  \/ \E t \in Threads : GtReturnFresh(t)
  \/ \E t \in Threads : ThInvalidate(t)

SpecConc == InitConc /\ [][NextConc]_vars

(***************************************************************************)
(* The dispatch layer: one invocation of a resource or tool handler on top *)
(* of _make_request.  token.json holds a valid record and the API answers  *)
(* 200, 404 or not at all.                                                 *)
(***************************************************************************)
\* the handlers that wrap the client operation in a retry loop: the
\* resource get_employees, and fetch_employees through with_retry
HasRetryLoop(h) == h \in {"get_employees", "fetch_employees"}

\* for attempt in range(max_retries): the number of calls a handler makes
\* at most
HandlerAttempts(h) == IF HasRetryLoop(h) THEN handler_max_retries ELSE 1

\* outcomes of the authorized request in the runs of the dispatch layer
DispRequestOutcomes ==
  [type : {"Response"}, status : {200, 404}]
    \cup [type : {"Timeout"}, status : {0}]

\* the protocol caller invokes handler h
DispInvoke(h) ==
  /\ UNCHANGED <<idVars, xVars>>
  /\ dpc = "idle"
  /\ dret = NoDispRet
  /\ handler' = h
  /\ attempt' = 0
  /\ d_delay' = handler_retry_delay
  /\ dpc' = "try"
  /\ UNCHANGED <<callVars, saveVars, thVars, cache, info, access_token,
                 token_expiry, issued, dsleeps, dcalls, dret>>

\* the handler calls the client operation, which enters _make_request
DispCall ==
  /\ UNCHANGED <<idVars, xVars>>
  /\ dpc = "try"
  /\ pc = "idle"
  /\ dcalls' = dcalls + 1
  /\ dpc' = "wait"
  /\ ncalls' = ncalls + 1
  /\ cache0' = cache
  /\ now0' = now
  /\ afterInval' = FALSE
  /\ posts' = 0
  /\ invals' = 0
  /\ attempts' = <<>>
  /\ sleeps' = <<>>
  /\ current_retry' = 0
  /\ retry_delay' = base_delay
  /\ last_exception' = NoExc
  /\ token' = NoToken
  /\ pc' = "ex_loop"
  /\ op' = "execute"
  /\ ret' = NoRet
  /\ UNCHANGED <<now, ticks, cache, info, access_token, token_expiry, issued,
                 tm_retry, tm_delay, tmSleeps, postLog, preInv, saveVars,
                 thVars, handler, attempt, d_delay, dsleeps, dret>>

\* the client operation has ended: the handler returns its result, or
\* catches the exception and sleeps before the next attempt, or re-raises
DispEnd ==
  /\ UNCHANGED <<idVars, xVars>>
  /\ dpc = "wait"
  /\ pc = "idle"
  /\ ret.op = "execute"
  /\ IF ret.kind = "return"
       THEN /\ dret' = DispReturned(ret.status)
            /\ dpc' = "done"
            /\ UNCHANGED <<now, attempt, d_delay, dsleeps>>
       ELSE IF attempt < HandlerAttempts(handler) - 1
         THEN /\ dsleeps' = Append(dsleeps, d_delay)
              /\ now' = now + d_delay
              /\ d_delay' = d_delay * 2
              /\ attempt' = attempt + 1
              /\ dpc' = "try"
              /\ UNCHANGED dret
         ELSE /\ dret' = DispRaised(ret.exc.status)
              /\ dpc' = "done"
              /\ UNCHANGED <<now, attempt, d_delay, dsleeps>>
  /\ UNCHANGED <<ticks, ncalls, pc, op, token, current_retry, retry_delay,
                 last_exception, tm_retry, tm_delay, posts, attempts, sleeps,
                 tmSleeps, invals, ret, cache0, now0, afterInval, preInv,
                 postLog, cache, info, access_token, token_expiry, issued,
                 saveVars, thVars, handler, dcalls>>

InitDisp ==
  /\ Init
  /\ cache = Record(1, 4000)

NextDisp ==
  \/ \E h \in Handlers : DispInvoke(h)
  \/ DispCall
  \/ \E f \in RemoveFaults : ExLoop(f)
  \/ \E o \in DispRequestOutcomes, f \in RemoveFaults : ExSend(o, f)
  \/ DispEnd

SpecDisp == InitDisp /\ [][NextDisp]_vars

(***************************************************************************)
(* TokenManager instances with different identities.  Each instance has    *)
(* its own access_token and token_expiry; token_dir does not depend on the *)
(* arguments of __init__, so all of them read and write the same           *)
(* token.json.  The identity endpoint answers 200.                         *)
(***************************************************************************)
\* the TokenManager as instance i sees it
TMof(i) == [cache |-> cache, info |-> info,
            access_token |-> imem[i].access_token,
            token_expiry |-> imem[i].token_expiry]

SetTMof(i, m) ==
  /\ cache' = m.cache
  /\ info' = m.info
  /\ imem' = [imem EXCEPT ![i] = [access_token |-> m.access_token,
                                  token_expiry |-> m.token_expiry]]

\* get_access_token of instance i: the cached token, or the token of an
\* exchange made with the credentials of i
IdGetToken(i) ==
  /\ LET r == load_cached_token(TMof(i), now, "none") IN
       /\ r.exc = NoExc
       /\ IF r.hit
            THEN /\ SetTMof(i, r.tm)
                 /\ iret' = [iret EXCEPT ![i] = ResReturn(r.tm.access_token)]
                 /\ UNCHANGED <<issued, owner>>
            ELSE LET tok == issued + 1
                     exp == TokenExpiry(now, SaveExpiresIn)
                     m == [r.tm EXCEPT !.access_token = tok,
                                       !.token_expiry = exp]
                 IN /\ issued < 1 + MaxExchanges
                    /\ issued' = tok
                    /\ owner' = [k \in 1..tok |->
                                   IF k = tok THEN i ELSE owner[k]]
                    /\ SetTMof(i, save_token_to_cache(m, tok, exp, "none"))
                    /\ iret' = [iret EXCEPT ![i] = ResReturn(tok)]
  /\ UNCHANGED <<callVars, saveVars, thVars, dispVars, xVars, access_token,
                 token_expiry>>

\* invalidate_token of instance i
IdInvalidate(i) ==
  /\ SetTMof(i, invalidate_token(TMof(i), "none"))
  /\ UNCHANGED <<callVars, saveVars, thVars, dispVars, xVars, access_token,
                 token_expiry, issued, owner, iret>>

\* token.json as an earlier run with one of the identities left it
IdInitialCaches == {Absent, Record(1, 600), Record(1, 4000)}

InitId ==
  /\ CoreInit
  /\ SaveInit
  /\ ThInit
  /\ DispInit
  /\ IdInit
  /\ XInit
  /\ tmp = Absent
  /\ cache \in IdInitialCaches

NextId ==
  \/ \E i \in Identities : IdGetToken(i)
  \/ \E i \in Identities : IdInvalidate(i)

SpecId == InitId /\ [][NextId]_vars

(***************************************************************************)
(* SpecLive: one get_access_token or one _make_request, where every        *)
(* network call completes or times out and every sleep ends: a call that   *)
(* can take its next step takes it.                                        *)
(***************************************************************************)
\* outcomes of the identity-endpoint POST in the runs of SpecLive
LivePostOutcomes ==
  [type : {"Response"}, status : {200}, expires_in : {3600}]
    \cup [type : {"Response"}, status : {500}, expires_in : {0}]
    \cup [type : {"Timeout"}, status : {0}, expires_in : {0}]

\* outcomes of the authorized request in the runs of SpecLive
LiveRequestOutcomes ==
  [type : {"Response"}, status : {200, 401, 503}]
    \cup [type : {"Timeout"}, status : {0}]

InitLive ==
  /\ Init
  /\ cache \in {Absent, Record(1, 4000)}

\* requests.post returns or raises after timeout=30 at the latest
PostCompletes == \E o \in LivePostOutcomes, f \in SaveFaults : TmPost(o, f)

\* requests.request returns or raises after request_timeout at the latest
SendCompletes ==
  \E o \in LiveRequestOutcomes, f \in RemoveFaults : ExSend(o, f)

\* the loop of _make_request goes on after time.sleep
LoopContinues == \E f \in RemoveFaults : ExLoop(f)

NextLive ==
  \/ ncalls = 0 /\ \E f \in RemoveFaults : CallGetToken(f)
  \/ CallExecute
  \/ LoopContinues
  \/ PostCompletes
  \/ SendCompletes

SpecLive ==
  /\ InitLive
  /\ [][NextLive]_vars
  /\ WF_vars(PostCompletes)
  /\ WF_vars(SendCompletes)
  /\ WF_vars(LoopContinues)

(***************************************************************************)
(* SpecRefresh: the threads call get_access_token only.                    *)
(***************************************************************************)
\* token.json at the start: absent, expiring or valid
RefreshInitialCaches == {Absent, Record(1, 600), Record(1, 4000)}

InitRefresh ==
  /\ Init
  /\ cache \in RefreshInitialCaches

NextRefresh ==
  \/ \E t \in Threads : GtLoad(t)
  \/ \E t \in Threads : GtReturnCached(t)
  \/ \E t \in Threads : GtPost(t)
  \/ \E t \in Threads : GtSave(t)
  \/ \E t \in Threads : GtReturnFresh(t)

SpecRefresh == InitRefresh /\ [][NextRefresh]_vars

(***************************************************************************)
(* SpecFault: get_access_token with storage writes that can fail.          *)
(***************************************************************************)
\* where _save_token_to_cache fails with IOError or OSError: nowhere, at the
\* write of the temporary file, at os.replace, at the write of the sidecar
StorageFaults == {"none", "temp", "replace", "info"}

\* outcomes of the identity-endpoint POST in the runs of SpecFault
FaultPostOutcomes ==
  [type : {"Response"}, status : {200}, expires_in : {300, 3600}]
    \cup [type : {"Timeout"}, status : {0}, expires_in : {0}]

\* token.json at the start of the runs of SpecFault
FaultInitialCaches ==
  {Absent, Record(1, 600), Record(1, 4000),
   [kind |-> "badjson", token |-> NoToken, expiry |-> NoExpiry]}

InitFault ==
  /\ Init
  /\ cache \in FaultInitialCaches

NextFault ==
  \/ \E d \in TickValues : Tick(d)
  \/ \E f \in RemoveFaults : CallGetToken(f)
  \/ \E o \in FaultPostOutcomes, f \in StorageFaults : TmPost(o, f)

SpecFault == InitFault /\ [][NextFault]_vars

(***************************************************************************)
(* SpecShare: concurrent _make_request calls on one client, that is on one *)
(* TokenManager and one token.json.  The identity endpoint answers 200;    *)
(* the API answers 200 or 401.                                             *)
(***************************************************************************)
\* outcomes of the authorized request in the runs of SpecShare
ShareStatuses == {200, 401}

\* the call and the initialisation of the locals
XCall(c) ==
  /\ xpc[c] = "idle"
  /\ xpc' = [xpc EXCEPT ![c] = "get"]
  /\ xretry' = [xretry EXCEPT ![c] = 0]
  /\ xdelay' = [xdelay EXCEPT ![c] = base_delay]
  /\ UNCHANGED <<callVars, saveVars, thVars, dispVars, idVars, cache, info,
                 access_token, token_expiry, issued, xtok, xiss, xinv>>

\* token = self.token_manager.get_access_token()
XGetToken(c) ==
  /\ xpc[c] = "get"
  /\ LET r == load_cached_token(TM, now, "none") IN
       /\ r.exc = NoExc
       /\ IF r.hit
            THEN /\ SetTM(r.tm)
                 /\ xtok' = [xtok EXCEPT ![c] = r.tm.access_token]
                 /\ UNCHANGED issued
            ELSE LET tok == issued + 1
                     exp == TokenExpiry(now, SaveExpiresIn)
                     m == [r.tm EXCEPT !.access_token = tok,
                                       !.token_expiry = exp]
                 IN /\ issued' = tok
                    /\ SetTM(save_token_to_cache(m, tok, exp, "none"))
                    /\ xtok' = [xtok EXCEPT ![c] = tok]
  /\ xiss' = [xiss EXCEPT ![c] = issued']
  /\ xpc' = [xpc EXCEPT ![c] = "send"]
  /\ UNCHANGED <<callVars, saveVars, thVars, dispVars, idVars, xretry,
                 xdelay, xinv>>

\* requests.request with the bearer token; on a 401 within the budget
\* invalidate_token, the sleep and the next iteration; otherwise the return
\* or the raise
XSend(c, st) ==
  /\ xpc[c] = "send"
  /\ IF ShouldRetry401(st, xretry[c])
       THEN /\ xinv' = [by |-> c, rejected |-> xtok[c], removed |-> cache,
                        iss |-> xiss[c]]
            /\ SetTM(On401(TM, "none"))
            /\ xretry' = [xretry EXCEPT ![c] = xretry[c] + 1]
            /\ now' = now + xdelay[c]
            /\ xdelay' = [xdelay EXCEPT ![c] = NextDelay(xdelay[c])]
            /\ xpc' = [xpc EXCEPT ![c] = "get"]
       ELSE /\ xpc' = [xpc EXCEPT ![c] = "done"]
            /\ UNCHANGED <<cache, info, access_token, token_expiry, now,
                           xretry, xdelay, xinv>>
  /\ UNCHANGED <<opVars, saveVars, thVars, dispVars, idVars, issued, xtok,
                 xiss>>

InitShare ==
  /\ Init
  /\ cache \in {Absent, Record(1, 4000)}

NextShare ==
  \/ \E c \in Callers : XCall(c)
  \/ \E c \in Callers : XGetToken(c)
  \/ \E c \in Callers, st \in ShareStatuses : XSend(c, st)

SpecShare == InitShare /\ [][NextShare]_vars

(***************************************************************************)
(* Properties of get_access_token and invalidate_token, checked under      *)
(* Spec.                                                                   *)
(***************************************************************************)
\* get_access_token is running or is the operation that finished last
GetTokenSeen == op = "get_token" \/ ret.op = "get_token"

GetTokenDone == pc = "idle" /\ ret.op = "get_token"

\* C1: when token.json holds a well-formed record whose expiry is strictly
\* greater than now + 600, get_access_token returns that record's token,
\* makes no request to the identity endpoint and leaves token.json as it was.
C1_CacheHit ==
  (GetTokenSeen /\ cache0.kind = "record" /\ cache0.expiry > now0 + 600)
    => /\ pc = "idle"
       /\ ret.kind = "return"
       /\ ret.tok = cache0.token
       /\ ret.src = "cache"
       /\ posts = 0
       /\ cache = cache0

C1_Witness ==
  /\ GetTokenDone
  /\ cache0 = Record(1, 601)
  /\ now0 = 0
  /\ ret.kind = "return"
  /\ ret.tok = 1

\* C2: every token get_access_token returns, from the cache or from a fresh
\* exchange, satisfies now < expires_at - 600 at the moment it is returned.
C2_ReturnedTokenOutsideBuffer ==
  (ret.op = "get_token" /\ ret.kind = "return") => ret.at < ret.exp - 600

\* C3: a cached record with expiry <= now + 600 is a miss and a fresh
\* exchange is performed; a record with expiry = now + 601 is returned
\* without an exchange.
C3_ExpiryBoundary ==
  (GetTokenSeen /\ cache0.kind = "record")
    => /\ cache0.expiry <= now0 + 600
            => IF pc = "idle" THEN posts >= 1 /\ ret.src # "cache"
                              ELSE pc = "tm_post"
       /\ cache0.expiry = now0 + 601
            => /\ pc = "idle"
               /\ posts = 0
               /\ ret.kind = "return"
               /\ ret.tok = cache0.token

C3_Witness ==
  /\ GetTokenDone
  /\ cache0.kind = "record"
  /\ cache0.expiry = now0 + 600
  /\ posts >= 1
  /\ ret.kind = "return"
  /\ ret.src = "exchange"

\* C4: whatever token.json held before (nothing, a valid, an expired or a
\* corrupt record), the get_access_token call that directly follows
\* invalidate_token makes a request to the identity endpoint and does not
\* return a token taken from the record cached before.
C4_InvalidationEffect ==
  (afterInval /\ GetTokenSeen)
    => IF pc = "idle"
         THEN /\ posts >= 1
              /\ ret.src # "cache"
              /\ ret.kind = "return"
                   => ret.src = "exchange" /\ ret.tok # preInv.token
         ELSE pc = "tm_post"

C4_Witness ==
  /\ afterInval
  /\ GetTokenDone
  /\ ret.kind = "return"
  /\ preInv.kind = "record"
  /\ preInv.expiry > now0 + 600

(***************************************************************************)
(* Properties of _make_request, checked under SpecEx.                      *)
(***************************************************************************)
ExecuteDone == pc = "idle" /\ ret.op = "execute"

IsApi(a) == a.src = "api"

\* the authorized requests of the current _make_request, in order
ApiLog == SelectSeq(attempts, IsApi)

IsTransportFailure(a) ==
  a.src = "api" /\ a.type \in {"Timeout", "ConnectionError"}

Is401(a) == a.src = "api" /\ a.type = "Response" /\ a.status = 401

Is5xx(a) ==
  a.src = "api" /\ a.type = "Response" /\ 500 <= a.status /\ a.status < 600

IsOther4xx(a) ==
  /\ a.src = "api"
  /\ a.type = "Response"
  /\ 400 <= a.status
  /\ a.status < 500
  /\ a.status # 401

RECURSIVE Pow2(_)
Pow2(n) == IF n = 0 THEN 1 ELSE 2 * Pow2(n - 1)

\* C5: when the authorized requests of one _make_request are answered 401
\* and then 200, it returns the 200 response, invalidate_token was called
\* exactly once and before the second request, and the second request
\* carries a token issued after the 401 was received.
C5_SelfHealing401 ==
  (/\ Len(ApiLog) = 2
   /\ Is401(ApiLog[1])
   /\ ApiLog[2].type = "Response"
   /\ ApiLog[2].status = 200)
    => /\ ExecuteDone
       /\ ret.kind = "return"
       /\ ret.status = 200
       /\ invals = 1
       /\ ApiLog[1].inv = 0
       /\ ApiLog[2].inv = 1
       /\ ApiLog[2].tok > ApiLog[1].iss

C5_Witness ==
  /\ ExecuteDone
  /\ cache0 = Record(1, 4000)
  /\ Len(attempts) = 2
  /\ Is401(attempts[1])
  /\ attempts[1].tok = 1
  /\ attempts[2].src = "api"
  /\ attempts[2].status = 200
  /\ ret.status = 200

\* C6: every 401 answer to an authorized request, the one on the last
\* permitted attempt included, is followed by invalidate_token, so that when
\* _make_request ends with a 401 error the rejected token is not left in
\* token.json.
C6_Every401Invalidates ==
  /\ invals = Cardinality({i \in 1..Len(attempts) : Is401(attempts[i])})
  /\ (/\ ExecuteDone
      /\ ret.kind = "raise"
      /\ ret.exc.type = "HTTPError"
      /\ ret.exc.status = 401
      /\ Len(attempts) > 0
      /\ Is401(attempts[Len(attempts)]))
       => ~(cache.kind = "record"
            /\ cache.token = attempts[Len(attempts)].tok)

\* C7: a 4xx answer other than 401 ends _make_request at once: it is the
\* last attempt, no sleep and no invalidate_token follow it, and its
\* HTTPError is raised; as the first answer it makes the attempt the only
\* one.
C7_ClientErrorNotRetried ==
  \A i \in 1..Len(attempts) :
    IsOther4xx(attempts[i])
      => /\ i = Len(attempts)
         /\ ExecuteDone
         /\ ret.kind = "raise"
         /\ ret.exc = Exc("HTTPError", attempts[i].status, i)
         /\ Len(sleeps) = attempts[i].sl
         /\ invals = attempts[i].inv
         /\ current_retry = attempts[i].cr

C7_Witness ==
  /\ ExecuteDone
  /\ Len(attempts) = 1
  /\ IsOther4xx(attempts[1])
  /\ attempts[1].status = 404
  /\ sleeps = <<>>
  /\ ret.kind = "raise"

\* C8: with max_retries = 3, when every iteration of _make_request issues
\* its authorized request and every one of them times out or fails to
\* connect, exactly 4 requests are made, the sleeps are 1, 2, 4 in that
\* order, one after each of the first three requests and none after the
\* last, and the transport error of the fourth request is raised.
C8_TransportExhaustion ==
  (/\ ExecuteDone
   /\ \A i \in 1..Len(attempts) : IsTransportFailure(attempts[i]))
    => /\ Len(attempts) = 4
       /\ sleeps = <<1, 2, 4>>
       /\ \A i \in 1..Len(attempts) : attempts[i].sl = i - 1
       /\ ret.kind = "raise"
       /\ ret.exc = Exc(attempts[4].type, 0, 4)

C8_Witness ==
  /\ ExecuteDone
  /\ Len(attempts) = 4
  /\ \A i \in 1..4 : IsTransportFailure(attempts[i])
  /\ attempts[3].type = "Timeout"
  /\ attempts[4].type = "ConnectionError"
  /\ sleeps = <<1, 2, 4>>
  /\ ret.exc.type = "ConnectionError"

\* C9: a 5xx answer to an authorized request received while fewer than
\* max_retries retries are consumed is followed by a backoff sleep and
\* another iteration; when every attempt is answered 5xx, exactly
\* max_retries + 1 attempts are made and the HTTPError of the last one is
\* raised.
C9_ServerErrorRetried ==
  /\ \A i \in 1..Len(attempts) :
       (Is5xx(attempts[i]) /\ attempts[i].cr < max_retries)
         => /\ Len(sleeps) > attempts[i].sl
            /\ sleeps[attempts[i].sl + 1] = base_delay * Pow2(attempts[i].sl)
            /\ i < Len(attempts) \/ pc # "idle"
  /\ (/\ ExecuteDone
      /\ \A i \in 1..Len(attempts) : Is5xx(attempts[i]))
       => /\ Len(attempts) = max_retries + 1
          /\ ret.kind = "raise"
          /\ ret.exc = Exc("HTTPError", attempts[Len(attempts)].status,
                           Len(attempts))

C9_Witness ==
  /\ ExecuteDone
  /\ Len(attempts) = max_retries + 1
  /\ \A i \in 1..Len(attempts) : Is5xx(attempts[i])
  /\ ret.exc.status = 503

\* C10: within one _make_request at most max_retries + 1 authorized
\* requests are issued, every outcome that is retried consumes one unit of
\* the one budget current_retry, and the k-th sleep is base_delay * 2^(k-1)
\* whatever kinds of failure preceded it.
C10_SharedRetryBudget ==
  /\ Len(ApiLog) <= max_retries + 1
  /\ Len(attempts) <= max_retries + 1
  /\ \A i \in 1..Len(attempts) :
       attempts[i].cr = i - 1 /\ attempts[i].sl = i - 1
  /\ (op = "execute") => current_retry = Len(attempts)
  /\ Len(sleeps) <= max_retries
  /\ \A k \in 1..Len(sleeps) : sleeps[k] = base_delay * Pow2(k - 1)

C10_Witness ==
  /\ ExecuteDone
  /\ Len(attempts) = 4
  /\ Is401(attempts[1])
  /\ attempts[2].src = "api" /\ attempts[2].type = "Timeout"
  /\ Is5xx(attempts[3])
  /\ attempts[4].src = "api" /\ attempts[4].type = "ConnectionError"
  /\ sleeps = <<1, 2, 4>>

(***************************************************************************)
(* Properties of _request_new_token, checked under Spec (C11, C12) and     *)
(* SpecEx (C13).                                                           *)
(***************************************************************************)
\* get_access_token, called directly, has entered _request_new_token and
\* postLog is the log of that exchange
ExchangeSeen == GetTokenSeen /\ posts >= 1 /\ Len(postLog) = posts

IsRejection(o) == o.type = "Response" /\ 400 <= o.status /\ o.status < 600

IsPostTransportFailure(o) == o.type \in {"Timeout", "ConnectionError"}

IsPostSuccess(o) == o.type = "Response" /\ o.status < 400

\* C11: a non-2xx answer of the identity endpoint ends the exchange at once:
\* no POST and no backoff sleep follow it and its HTTPError is raised to the
\* caller of get_access_token; as the first answer it leaves exactly one
\* POST.
C11_IdentityRejectionTerminal ==
  ExchangeSeen
    => \A i \in 1..Len(postLog) :
         IsRejection(postLog[i])
           => /\ i = Len(postLog)
              /\ pc = "idle"
              /\ ret.kind = "raise"
              /\ ret.exc.type = "HTTPError"
              /\ ret.exc.status = postLog[i].status
              /\ Len(tmSleeps) <= i - 1

\* C12: a POST to the identity endpoint that fails at transport level is
\* retried up to max_retries = 3 times, the sleeps being 1, 2, 4; a success
\* on any attempt returns the new token, which is then the cached record,
\* and makes no further POST; when the last of max_retries + 1 POSTs fails
\* at transport level its error is raised and no record is written.
C12_ExchangeTransportRetry ==
  ExchangeSeen
    => /\ Len(postLog) <= max_retries + 1
       /\ Len(tmSleeps) <= 3
       /\ \A k \in 1..Len(tmSleeps) : tmSleeps[k] = <<1, 2, 4>>[k]
       /\ \A i \in 1..Len(postLog) :
            /\ (IsPostTransportFailure(postLog[i]) /\ i <= max_retries)
                 => /\ Len(tmSleeps) >= i
                    /\ i < Len(postLog) \/ pc = "tm_post"
            /\ IsPostSuccess(postLog[i])
                 => /\ i = Len(postLog)
                    /\ pc = "idle"
                    /\ ret.kind = "return"
                    /\ ret.src = "exchange"
                    /\ Len(tmSleeps) = i - 1
                    /\ cache = Record(ret.tok, ret.exp)
       /\ (/\ Len(postLog) = max_retries + 1
           /\ IsPostTransportFailure(postLog[max_retries + 1]))
            => /\ pc = "idle"
               /\ ret.kind = "raise"
               /\ ret.exc = Exc(postLog[max_retries + 1].type, 0,
                                max_retries + 1)
               /\ Len(tmSleeps) = max_retries
               /\ cache.kind = "record" => cache = cache0

C12_Witness ==
  /\ GetTokenDone
  /\ cache0 = Record(1, 600)
  /\ Len(postLog) = 4
  /\ \A i \in 1..4 : IsPostTransportFailure(postLog[i])
  /\ postLog[1].type = "ConnectionError"
  /\ postLog[4].type = "Timeout"
  /\ tmSleeps = <<1, 2, 4>>
  /\ ret.kind = "raise"
  /\ ret.exc.type = "Timeout"
  /\ cache = cache0

\* C13: when the token exchange inside an attempt of _make_request exhausts
\* its retries with a transport error, _make_request raises that error
\* without starting another attempt.
C13_ExhaustedExchangeFatal ==
  \A i \in 1..Len(attempts) :
    (attempts[i].src = "idp"
       /\ attempts[i].type \in {"Timeout", "ConnectionError"})
      => /\ i = Len(attempts)
         /\ ExecuteDone
         /\ ret.kind = "raise"
         /\ ret.exc.type = attempts[i].type

(***************************************************************************)
(* Properties of the cache file, checked under Spec.                       *)
(***************************************************************************)
\* C14: whatever token.json holds that is not a well-formed record
\* (unparseable data, or JSON without the token or the expiry field or with
\* a non-numeric expiry), get_access_token does not raise because of it: it
\* performs a fresh exchange, and when that succeeds token.json holds the
\* new record.
C14_CorruptCacheRecovery ==
  (GetTokenDone
     /\ cache0.kind \in {"badjson", "noexpiry", "notoken", "badexpiry"})
    => /\ ret.exc.type \notin {"KeyError", "TypeError"}
       /\ posts >= 1
       /\ ret.kind = "return" => cache = Record(ret.tok, ret.exp)

\* C15: after a crash at any point of _save_token_to_cache, token.json is
\* the complete record it held before, absent, or the complete record of a
\* save; it is never a partially written record.
C15_CrashAtomicWrite ==
  crashed
    => \/ cache = cache0
       \/ cache = Absent
       \/ /\ cache.kind = "record"
          /\ cache.token \in 2..issued
          /\ cache.expiry = TokenExpiry(now, SaveExpiresIn)

C15_Witness ==
  /\ crashed
  /\ wpc[1] = "closed"
  /\ tmp = Record(wtok[1], TokenExpiry(now, SaveExpiresIn))
  /\ cache0 = Record(1, 4000)
  /\ cache = cache0

\* C16: with callers saving concurrently, under every interleaving of their
\* open, write, close and rename steps a json.load of token.json reads a
\* complete record or finds no file, never an empty or partial one.
C16_ReaderSeesCompleteRecord ==
  observed.kind \in {"none", "absent", "record"}

\* C17: when threads share one TokenManager and interleave get_access_token,
\* the exchange and invalidate_token, every get_access_token that returns
\* returns a token the identity endpoint issued, never None.
C17_ConcurrentGetTokenIssued ==
  \A t \in Threads :
    tres[t].kind = "return" => tres[t].token \in 1..issued

\* C18: a handler of the dispatch layer calls the client operation at most
\* once per invocation: an error the core raises reaches the protocol
\* caller after exactly one call and without a sleep of the handler.
C18_RetryOwnedByCore ==
  /\ dcalls <= 1
  /\ dsleeps = <<>>
  /\ dret.kind = "raise" => dcalls = 1

\* no token in memory, no token.json and no token_info.txt
Cleared ==
  /\ cache = Absent
  /\ info = NoToken
  /\ access_token = NoToken
  /\ token_expiry = NoExpiry

\* the step is a call of invalidate_token
InvalidateStep == ncalls' = ncalls + 1 /\ ret'.op = "invalidate"

\* C19: invalidate_token never raises and leaves no token in memory and no
\* cache file or sidecar; called when none of them exists, or a second time
\* in a row, it changes nothing.
C19_InvalidateIdempotent ==
  [][InvalidateStep
       => /\ ret'.kind = "return"
          /\ Cleared'
          /\ Cleared
               => UNCHANGED <<cache, info, access_token, token_expiry>>
          /\ ret.op = "invalidate" => Cleared]_vars

C19_Witness ==
  /\ pc = "idle"
  /\ ret.op = "invalidate"
  /\ afterInval
  /\ preInv = Absent
  /\ cache0 = Absent
  /\ Cleared

\* C20: every _make_request ends by returning a response whose status is
\* not an error status or by raising an error; it never leaves its retry
\* loop returning None.
C20_NoPartialResults ==
  ExecuteDone
    => /\ ret # RetNone
       /\ \/ ret.kind = "raise" /\ ret.exc # NoExc
          \/ /\ ret.kind = "return"
             /\ ret.status # 0
             /\ ~IsErrorStatus(ret.status)

C20_Witness ==
  /\ ExecuteDone
  /\ ret.kind = "raise"
  /\ current_retry = max_retries + 1
  /\ Len(sleeps) = max_retries

\* C21: when storage writes succeed, a token get_access_token returns from
\* a fresh exchange is in token.json before the return: the record holds
\* the returned token with expiry = exchange time + expires_in, and it has
\* replaced whatever record was there before.
C21_PersistBeforeReturn ==
  (GetTokenDone /\ ret.kind = "return" /\ ret.src = "exchange")
    => /\ ExchangeSeen
       /\ IsPostSuccess(postLog[Len(postLog)])
       /\ ret.tok = issued
       /\ ret.exp = ret.at + postLog[Len(postLog)].expires_in
       /\ cache = Record(ret.tok, ret.exp)
       /\ info = ret.tok

C21_Witness ==
  /\ GetTokenDone
  /\ ret.kind = "return"
  /\ ret.src = "exchange"
  /\ cache0 = Record(1, 600)
  /\ Len(postLog) = 2
  /\ cache = Record(2, ret.at + 3600)

\* C22: get_access_token of a TokenManager never returns a token that an
\* instance with other credentials or another base_url obtained and cached.
C22_CachePerIdentity ==
  \A i \in Identities :
    iret[i].kind = "return" => owner[iret[i].token] = i

\* the retry loops stay within their budgets
WithinRetryBudget ==
  /\ (op = "execute" \/ ret.op = "execute")
       => Len(attempts) <= max_retries + 1
  /\ GetTokenSeen => posts <= max_retries + 1
  /\ tm_retry <= max_retries + 1
  /\ current_retry <= max_retries + 1

\* C23: when every network call completes or times out and every sleep
\* ends, each _make_request ends after at most max_retries + 1 attempts and
\* each get_access_token after at most max_retries + 1 requests to the
\* identity endpoint; no sequence of outcomes keeps a retry loop running.
C23_Termination ==
  /\ []WithinRetryBudget
  /\ (pc # "idle") ~> (pc = "idle")

C23_Witness ==
  /\ ExecuteDone
  /\ Len(attempts) = max_retries + 1
  /\ posts = (max_retries + 1) * (max_retries + 1)

\* C24: no lock serialises get_access_token: a caller that found the cached
\* token absent or expiring can make its request to the identity endpoint
\* whatever the other caller is doing, so two callers can both exchange and
\* both write a record; each caller still obtains a token.
C24_NoRefreshMutualExclusion ==
  \A t \in Threads :
    /\ (tpc[t] = "exchange" /\ issued < 1 + MaxExchanges)
         => ENABLED GtPost(t)
    /\ tres[t].kind # "raise"
    /\ tres[t].kind = "return" => tres[t].token \in 1..issued

C24_Witness ==
  /\ cache0 = Record(1, 600)
  /\ issued = 3
  /\ \A t \in Threads : tpc[t] = "idle" /\ tres[t].kind = "return"
  /\ cache.kind = "record"
  /\ cache.token \in {2, 3}

\* the step is an authorized request of _make_request that ends otherwise
\* than in a 401 response
NonUnauthorizedStep ==
  /\ pc = "ex_send"
  /\ Len(attempts') = Len(attempts) + 1
  /\ ~Is401(attempts'[Len(attempts')])

\* C25: during _make_request a timeout, a connection error, a 5xx response,
\* a 4xx response other than 401 and a 2xx response leave token.json, the
\* sidecar and the token in memory unchanged; invalidate_token is called
\* only in reaction to a 401 response to the authorized request.
C25_Only401Invalidates ==
  [][/\ NonUnauthorizedStep
          => /\ UNCHANGED <<cache, info, access_token, token_expiry>>
             /\ invals' = invals
     /\ (op = "execute" /\ invals' > invals)
          => /\ pc = "ex_send"
             /\ Is401(attempts'[Len(attempts')])]_vars

C25_Witness ==
  /\ ExecuteDone
  /\ Len(attempts) = 4
  /\ attempts[1].type = "Timeout"
  /\ attempts[2].type = "ConnectionError"
  /\ attempts[3].status = 503
  /\ attempts[4].status = 404
  /\ \A i \in 1..4 : IsApi(attempts[i])
  /\ invals = 0
  /\ cache = cache0
  /\ cache = Record(1, 4000)

\* the step is the successful POST of a get_access_token
ExchangeStep == op = "get_token" /\ issued' = issued + 1

\* the record of the token just issued
NewRecord == Record(issued', token_expiry')

\* the step is a successful POST after which _save_token_to_cache failed
FailedSaveStep ==
  /\ ExchangeStep
  /\ cache' # NewRecord \/ info' # issued'

\* the step is the start of a get_access_token that finds no valid record
MissStep ==
  /\ pc = "idle"
  /\ ncalls' = ncalls + 1
  /\ op' = "get_token" \/ ret'.op = "get_token"
  /\ cache.kind \in {"absent", "record"}
  /\ ~(cache.kind = "record" /\ TokenStillValid(cache.expiry, now))

\* C26 as stated: when the write of the temporary file, the rename or the
\* write of the sidecar fails after a successful exchange, get_access_token
\* returns the new token without raising, token.json is left as it was, and
\* the next get_access_token makes another exchange unless a valid record is
\* present.
C26_WriteFailureNotFatal ==
  [][/\ FailedSaveStep
          => /\ ret'.kind = "return"
             /\ ret'.tok = issued'
             /\ cache' = cache
     /\ MissStep => pc' = "tm_post"]_vars

\* C26 amended: token.json is left as it was when the write of the
\* temporary file or the rename failed, and holds the complete new record
\* when only the write of the sidecar failed.
C26_WriteFailureNotFatalAmended ==
  [][/\ FailedSaveStep
          => /\ ret'.kind = "return"
             /\ ret'.tok = issued'
             /\ \/ cache' = cache /\ info' = info
                \/ cache' = NewRecord
     /\ MissStep => pc' = "tm_post"]_vars

C26_Witness ==
  /\ GetTokenDone
  /\ ret.kind = "return"
  /\ ret.src = "exchange"
  /\ ret.tok = 3
  /\ cache = Record(1, 600)
  /\ cache0 = cache
  /\ info = 1
  /\ ncalls = 2

\* C27: with two concurrent _make_request calls sharing the cache, the
\* invalidate_token that follows a 401 of one caller never removes a record
\* that the other caller's exchange wrote after the first caller got the
\* token that was rejected.
C27_InvalidateOnlyRejected ==
  xinv.removed.kind = "record" => xinv.removed.token <= xinv.iss

====
